---------------------------- MODULE Spec2Model ----------------------------
(***************************************************************************)
(* Model of the Streamlit chess dashboard (src/app.py, src/utils.py).      *)
(*                                                                         *)
(* One script run of main() is one atomic step: Streamlit re-executes the  *)
(* whole script on every widget interaction.  The state that survives a    *)
(* run is the widget values and st.session_state; everything else is       *)
(* recomputed and recorded in `view` (what the run rendered or raised).    *)
(*                                                                         *)
(* Optional values (Python None) are sequences of length 0 or 1.           *)
(***************************************************************************)
EXTENDS Integers, Sequences, FiniteSets, TLC

VARIABLES
    game_data,      \* the table returned by load_data(); never written
    widgets,        \* the value every input widget holds
    session_state,  \* st.session_state: a function from the keys set so far
    view,           \* what the last script run computed, rendered or raised
    event,          \* the replay interactions (step, opening change) just made
    call            \* a direct call of one utils function: its input and result

vars == <<game_data, widgets, session_state, view, event, call>>

None == <<>>
Some(x) == <<x>>

(***************************************************************************)
(* Bounds of the model.                                                    *)
(***************************************************************************)
MaxMoves == 3        \* longest move list handed to update_chess_board directly
MaxRows == 2         \* rows appended to a table handed to an aggregation directly

(***************************************************************************)
(* Sequence helpers standing for the pandas / Python primitives used.      *)
(***************************************************************************)
\* df[mask]: the rows whose entry of the boolean mask is set, in table order.
SelectRows(df, mask) ==
    LET F[i \in 0..Len(df)] ==
            IF i = 0 THEN <<>>
            ELSE IF mask[i] THEN Append(F[i - 1], df[i]) ELSE F[i - 1]
    IN  F[Len(df)]

Range(s) == {s[i] : i \in DOMAIN s}

\* Series.unique(): distinct values in order of first appearance.
unique(s) == SelectRows(s, [i \in DOMAIN s |-> \A j \in 1..(i - 1) : s[j] # s[i]])

Column(df, name) == [i \in DOMAIN df |-> df[i][name]]

\* Python s[:e] for any integer e (negative e counts from the end).
PySlicePrefix(s, e) ==
    LET stop == IF e < 0 THEN (IF Len(s) + e < 0 THEN 0 ELSE Len(s) + e)
                ELSE (IF e > Len(s) THEN Len(s) ELSE e)
    IN  SubSeq(s, 1, stop)

\* Python s[i] is defined for -len(s) <= i < len(s); anything else is IndexError.
PyIndexOk(s, i) == i >= -Len(s) /\ i < Len(s)
PyIndex(s, i) == IF i >= 0 THEN s[i + 1] ELSE s[Len(s) + i + 1]

(***************************************************************************)
(* The chess-rules collaborator (python-chess), cut down to the squares    *)
(* and pieces the modelled move lists touch.  A board is the ply count     *)
(* (white moves on even plies) and the piece standing on each square.      *)
(***************************************************************************)
Squares == {"e2", "e3", "e4", "e7", "e6", "e5", "g1", "f3", "b8", "c6", "f1", "d3", "c4"}

\* chess.Board(): the initial position.
Board ==
    [ply |-> 0,
     at  |-> [q \in Squares |->
                 CASE q = "e2" -> "P" [] q = "e7" -> "p" [] q = "g1" -> "N"
                   [] q = "b8" -> "n" [] q = "f1" -> "B" [] OTHER -> ""]]

\* What a SAN token asks for: who moves which piece from where to where, and
\* the squares in between that must be free.
SanTable ==
    [san \in {"e4", "e5", "Nf3", "Nc6", "Bc4"} |->
        CASE san = "e4"  -> [white |-> TRUE,  piece |-> "P", from_square |-> "e2",
                             to_square |-> "e4", path |-> {"e3"}]
          [] san = "e5"  -> [white |-> FALSE, piece |-> "p", from_square |-> "e7",
                             to_square |-> "e5", path |-> {"e6"}]
          [] san = "Nf3" -> [white |-> TRUE,  piece |-> "N", from_square |-> "g1",
                             to_square |-> "f3", path |-> {}]
          [] san = "Nc6" -> [white |-> FALSE, piece |-> "n", from_square |-> "b8",
                             to_square |-> "c6", path |-> {}]
          [] san = "Bc4" -> [white |-> TRUE,  piece |-> "B", from_square |-> "f1",
                             to_square |-> "c4", path |-> {"e2", "d3"}]]

IsLegal(board, san) ==
    /\ san \in DOMAIN SanTable
    /\ LET m == SanTable[san]
       IN  /\ m.white = (board.ply % 2 = 0)
           /\ board.at[m.from_square] = m.piece
           /\ board.at[m.to_square] = ""
           /\ \A q \in m.path : board.at[q] = ""

\* board.push_san(san): the move played and the position after it, or the
\* ValueError python-chess raises for a token that is not a legal move here.
push_san(board, san) ==
    IF IsLegal(board, san)
    THEN LET m == SanTable[san]
         IN  [raised |-> FALSE,
              move   |-> Some([from_square |-> m.from_square, to_square |-> m.to_square]),
              board  |-> [ply |-> board.ply + 1,
                          at  |-> [board.at EXCEPT ![m.from_square] = "",
                                                   ![m.to_square] = m.piece]]]
    ELSE [raised |-> TRUE, move |-> None, board |-> board]

(***************************************************************************)
(* utils.update_chess_board                                                *)
(***************************************************************************)
\* The loop over moves[:current_move_index + 1]; an exception from push_san
\* leaves the loop and the function at once.
ReplayLoop(prefix) ==
    LET F[i \in 0..Len(prefix)] ==
            IF i = 0 THEN [raised |-> FALSE, board |-> Board, last_move |-> None]
            ELSE LET before == F[i - 1]
                     r      == push_san(before.board, prefix[i])
                 IN  IF before.raised THEN before
                     ELSE IF r.raised
                          THEN [raised |-> TRUE, board |-> before.board,
                                last_move |-> before.last_move]
                          ELSE [raised |-> FALSE, board |-> r.board, last_move |-> r.move]
    IN  F[Len(prefix)]

\* The replay stopping one move short.
update_chess_board_short(moves, current_move_index) ==
    ReplayLoop(PySlicePrefix(moves, current_move_index))

update_chess_board(moves, current_move_index) ==
    ReplayLoop(PySlicePrefix(moves, current_move_index + 1))

(***************************************************************************)
(* utils.get_move_list.  A moves cell is a sequence of lexemes: SAN tokens *)
(* separated by runs of " ".                                               *)
(***************************************************************************)
\* str.split(): the tokens between runs of whitespace.
split(moves_str) == SelectRows(moves_str, [i \in DOMAIN moves_str |-> moves_str[i] # " "])

get_move_list(op_data, selected_opening) ==
    LET cells == Column(SelectRows(op_data, [i \in DOMAIN op_data |->
                            op_data[i].opening_name = selected_opening]), "moves")
    IN  IF cells = <<>> THEN <<>>          \* .iloc[0] raises IndexError: caught
        ELSE split(cells[1])

(***************************************************************************)
(* Opening names, in the order Python's sorted() and pandas' groupby put   *)
(* them (plain string order).                                              *)
(***************************************************************************)
OpeningNames ==
    <<"Amar Opening", "Italian Game", "King's Pawn Game", "Nimzowitsch Defense",
      "Sicilian Defense", "Zukertort Opening">>

NameRank(name) == CHOOSE i \in DOMAIN OpeningNames : OpeningNames[i] = name

\* sorted(names): ascending string order.
sorted(names) ==
    LET present == {i \in DOMAIN OpeningNames : OpeningNames[i] \in Range(names)}
        F[i \in 0..Len(OpeningNames)] ==
            IF i = 0 THEN <<>>
            ELSE IF i \in present THEN Append(F[i - 1], OpeningNames[i]) ELSE F[i - 1]
    IN  F[Len(OpeningNames)]

\* sorted(increments): ascending numeric order of a duplicate-free list.
sorted_numbers(xs) ==
    LET S == Range(xs)
        Pos(x) == Cardinality({y \in S : y < x}) + 1
    IN  [i \in 1..Cardinality(S) |-> CHOOSE x \in S : Pos(x) = i]

\* Sort keys are tuples of numbers compared column by column.
KeyGreater(a, b) ==
    \E i \in DOMAIN a : a[i] > b[i] /\ \A j \in 1..(i - 1) : a[j] = b[j]

\* A stable descending sort by key: row i goes behind every row with a greater
\* key and behind every earlier row with an equal key.
SortDescending(df, key) ==
    LET Pos(i) == Cardinality({j \in DOMAIN df :
                     \/ KeyGreater(key[j], key[i])
                     \/ (key[j] = key[i] /\ j < i)}) + 1
    IN  [p \in DOMAIN df |-> df[CHOOSE i \in DOMAIN df : Pos(i) = p]]

\* df.head(n)
head(df, n) == SubSeq(df, 1, IF Len(df) < n THEN Len(df) ELSE n)

(***************************************************************************)
(* utils.plot_most_played_openings                                         *)
(***************************************************************************)
TopK == 5
custom_colors == <<"#FFBE0B", "#FB5607", "#FF006E", "#8338EC", "#3A86FF">>

\* Series.value_counts(): one row per distinct value, most frequent first,
\* equal counts in order of first appearance.
value_counts(series) ==
    LET values == unique(series)
        counted == [i \in DOMAIN values |->
                       [value |-> values[i],
                        count |-> Cardinality({k \in DOMAIN series : series[k] = values[i]})]]
    IN  SortDescending(counted, [i \in DOMAIN counted |-> <<counted[i].count>>])

\* The five openings met first, whatever their counts.
plot_most_played_openings_first_met(data) ==
    LET names == unique(Column(data, "opening_name"))
        top == head(names, TopK)
    IN  [i \in DOMAIN top |->
            [opening_name |-> top[i],
             games |-> Cardinality({k \in DOMAIN data : data[k].opening_name = top[i]}),
             color |-> custom_colors[i]]]

plot_most_played_openings(data) ==
    LET vc == value_counts(Column(data, "opening_name"))
        \* nlargest(5, 'Number of Games Played')
        top == head(SortDescending(vc, [i \in DOMAIN vc |-> <<vc[i].count>>]), TopK)
    IN  [i \in DOMAIN top |->
            [opening_name |-> top[i].value, games |-> top[i].count,
             color |-> custom_colors[i]]]

(***************************************************************************)
(* utils.plot_top_openings                                                 *)
(***************************************************************************)
\* groupby(['opening_name','winner']).size().unstack(fill_value=0): one row
\* per opening in name order, one column per winner value that occurs.
WinnerColumns(data) == Range(Column(data, "winner"))

WinsTable(data) ==
    LET names == sorted(unique(Column(data, "opening_name")))
        Wins(name, who) ==
            Cardinality({k \in DOMAIN data :
                            data[k].opening_name = name /\ data[k].winner = who})
    IN  [i \in DOMAIN names |->
            [opening_name |-> names[i],
             white |-> Wins(names[i], "white"),
             black |-> Wins(names[i], "black")]]

\* DataFrame.nlargest(5, ['white', 'black']): the rows are ordered by the
\* first column; the second column only separates rows equal in the first.
NlargestKey(row) == <<row.white, row.black>>

plot_top_openings(data) ==
    IF ~({"white", "black"} \subseteq WinnerColumns(data))
    THEN [raised |-> TRUE, rows |-> <<>>]          \* KeyError from nlargest
    ELSE [raised |-> FALSE,
          rows |-> LET t == WinsTable(data)
                   IN  head(SortDescending(t, [i \in DOMAIN t |-> NlargestKey(t[i])]),
                            TopK)]

(***************************************************************************)
(* utils.plot_winning_rates                                                *)
(***************************************************************************)
\* The pie chart counting decided games only.
plot_winning_rates_decided(data) ==
    IF data = <<>> THEN None
    ELSE LET decided == SelectRows(data, [i \in DOMAIN data |-> data[i].winner # "draw"])
         IN  Some([counts   |-> value_counts(Column(decided, "winner")),
                   category |-> data[1].time_control_category])

plot_winning_rates(data) ==
    IF data = <<>> THEN None
    ELSE Some([counts   |-> value_counts(Column(data, "winner")),
               category |-> data[1].time_control_category])

(***************************************************************************)
(* utils.plot_opening_vs_game_duration                                     *)
(***************************************************************************)
DurationTopK == 10
default_color == "#cccccc"

RECURSIVE Sum(_)
Sum(s) == IF s = <<>> THEN 0 ELSE Head(s) + Sum(Tail(s))

total_duration(row) == row.initial_time + row.turns * row.increment

\* The mean is kept as the pair (sum of durations, number of games).
plot_opening_vs_game_duration(data, top_most_played) ==
    LET names == sorted(unique(Column(data, "opening_name")))
        grouped == [i \in DOMAIN names |->
            LET rows == SelectRows(data, [k \in DOMAIN data |->
                                             data[k].opening_name = names[i]])
            IN  [opening_name |-> names[i],
                 duration_sum |-> Sum([k \in DOMAIN rows |-> total_duration(rows[k])]),
                 count |-> Len(rows)]]
        \* sort_values(by='count', ascending=False).head(10)
        top_openings ==
            head(SortDescending(grouped, [i \in DOMAIN grouped |-> <<grouped[i].count>>]),
                 DurationTopK)
        ColorOf(name) ==
            LET hits == {k \in DOMAIN top_most_played :
                            top_most_played[k].opening_name = name}
            IN  IF hits = {} THEN default_color
                ELSE top_most_played[CHOOSE k \in hits : TRUE].color
    IN  [i \in DOMAIN top_openings |->
            [opening_name |-> top_openings[i].opening_name,
             duration_sum |-> top_openings[i].duration_sum,
             count |-> top_openings[i].count,
             color |-> ColorOf(top_openings[i].opening_name)]]

(***************************************************************************)
(* utils.load_data: the tables the CSV file may hold.  The file is not     *)
(* part of the sources, so the model starts from any of these.             *)
(***************************************************************************)
Game(id, opening_name, moves, winner, rated, white_rating, black_rating, time_control_category, increment, initial_time, turns) ==
    [id |-> id, opening_name |-> opening_name, moves |-> moves, winner |-> winner,
     rated |-> rated, white_rating |-> white_rating, black_rating |-> black_rating,
     time_control_category |-> time_control_category, increment |-> increment,
     initial_time |-> initial_time, turns |-> turns]

\* One opening whose first game repeats a move that is no longer legal, and
\* one whose moves cell holds only whitespace.
DamagedGames ==
    << Game("g1", "Italian Game", <<"e4", " ", "e5", " ", "Nf3">>,
            "white", TRUE, 100, 140, "Blitz", 5, 300, 3),
       Game("g2", "Italian Game", <<"e4", " ", "e5">>,
            "black", FALSE, 30, 60, "Blitz", 0, 180, 2),
       Game("g3", "Zukertort Opening", <<"Nf3", " ", "Nf3">>,
            "white", TRUE, 60, 260, "Rapid", 10, 600, 2),
       Game("g4", "Sicilian Defense", <<" ">>,
            "black", FALSE, 100, 100, "Rapid", 5, 900, 0) >>

Datasets == {DamagedGames}

(***************************************************************************)
(* app.main, lines 20-47: the sidebar widgets.                             *)
(***************************************************************************)
specific_increments == {1, 2, 5, 10, 15, 20, 30}

\* sorted(increments_filtered): the options of 'Select Time Increment'.
IncrementOptions(gd) ==
    LET seen == unique(Column(gd, "increment"))
    IN  sorted_numbers(SelectRows(seen, [i \in DOMAIN seen |->
                                            seen[i] \in specific_increments]))

CategoryOptions(gd) == unique(Column(gd, "time_control_category"))

OpeningOptions(gd) == sorted(unique(Column(gd, "opening_name")))

\* game_data['white_rating'].max()
MaxWhiteRating(gd) ==
    LET S == Range(Column(gd, "white_rating"))
    IN  CHOOSE m \in S : \A x \in S : x <= m

\* The positions of the rating slider: min 0, step 100, up to the maximum.
SliderValues(gd) == {100 * k : k \in 0..(MaxWhiteRating(gd) \div 100)}

\* display_data['id'].unique(): the options of 'Select the Game By ID'.
GameOptions(gd, opening) ==
    unique(Column(SelectRows(gd, [i \in DOMAIN gd |-> gd[i].opening_name = opening]),
                  "id"))

\* A selectbox shows its first option until the user picks another one, and
\* falls back to it when its options no longer contain the value held.
selectbox(options, held) ==
    IF held # None /\ held[1] \in Range(options) THEN held
    ELSE IF options = <<>> THEN None ELSE Some(options[1])

\* The widget values before the first interaction.
DefaultWidgets(gd) ==
    [category          |-> selectbox(CategoryOptions(gd), None),
     filter_rated_plot |-> "All",
     enable_selectbox  |-> FALSE,
     time_increment    |-> None,
     include_rating    |-> FALSE,
     rating            |-> <<0, MaxWhiteRating(gd)>>,
     filter_winner     |-> "All",
     selected_opening  |-> selectbox(OpeningOptions(gd), None),
     tabs              |-> "Opening move",
     game_ID           |-> selectbox(GameOptions(gd, OpeningOptions(gd)[1]), None)]

(***************************************************************************)
(* app.main, lines 52-64: the filters behind the statistical plots.        *)
(***************************************************************************)
CategoryFilter(df, w) ==
    SelectRows(df, [i \in DOMAIN df |-> Some(df[i].time_control_category) = w.category])

\* The rated filter keeping rated games for "Non-Rated" too.
RatedFilter_rated_only(df, w) ==
    IF w.filter_rated_plot # "All"
    THEN SelectRows(df, [i \in DOMAIN df |-> df[i].rated])
    ELSE df

RatedFilter(df, w) ==
    IF w.filter_rated_plot # "All"
    THEN LET is_rated == (w.filter_rated_plot = "Rated")
         IN  SelectRows(df, [i \in DOMAIN df |-> df[i].rated = is_rated])
    ELSE df

\* `if enable_selectbox and time_increment`: None and 0 both skip the filter.
IncrementFilter(df, w) ==
    IF w.enable_selectbox /\ w.time_increment # None /\ w.time_increment # Some(0)
    THEN SelectRows(df, [i \in DOMAIN df |-> df[i].increment = w.time_increment[1]])
    ELSE df

\* Series.between(lower, upper): both ends inclusive.
between(x, lower, upper) == lower <= x /\ x <= upper

RatingFilter(df, w) ==
    IF w.include_rating
    THEN LET lower == w.rating[1]
             upper == w.rating[2]
         IN  SelectRows(df, [i \in DOMAIN df |->
                 \/ between(df[i].white_rating, lower, upper)
                 \/ between(df[i].black_rating, lower, upper)])
    ELSE df

FilterNames == {"category", "rated", "increment", "rating"}

ApplyFilter(name, df, w) ==
    CASE name = "category"  -> CategoryFilter(df, w)
      [] name = "rated"     -> RatedFilter(df, w)
      [] name = "increment" -> IncrementFilter(df, w)
      [] name = "rating"    -> RatingFilter(df, w)

\* The filters applied one after the other in the given order.
ApplyFilters(order, df, w) ==
    LET F[i \in 0..Len(order)] ==
            IF i = 0 THEN df ELSE ApplyFilter(order[i], F[i - 1], w)
    IN  F[Len(order)]

\* The order the script applies them in.
ScriptOrder == <<"category", "rated", "increment", "rating">>

FilteredData(gd, w) == ApplyFilters(ScriptOrder, gd, w)

(***************************************************************************)
(* app.main, lines 68-103: the statistical plots tab.                      *)
(***************************************************************************)
NoPlots ==
    [raised |-> FALSE, most_played |-> None, top_openings |-> None,
     duration |-> None, winning_rates |-> None]

\* Each plot is drawn only when the filtered table has rows; an exception in
\* one of them ends the script run there.
Tab1(filtered_data) ==
    IF filtered_data = <<>> THEN NoPlots          \* "No plot available ..."
    ELSE LET most_played == plot_most_played_openings(filtered_data)
             fig2 == plot_top_openings(filtered_data)
         IN  IF fig2.raised
             THEN [NoPlots EXCEPT !.raised = TRUE, !.most_played = Some(most_played)]
             ELSE [raised        |-> FALSE,
                   most_played   |-> Some(most_played),
                   top_openings  |-> Some(fig2.rows),
                   duration      |-> Some(plot_opening_vs_game_duration(filtered_data,
                                                                        most_played)),
                   winning_rates |-> plot_winning_rates(filtered_data)]

(***************************************************************************)
(* app.main, lines 112-124: the opening selector and the replay session.   *)
(***************************************************************************)
\* st.session_state[key] = value
Put(state, key, value) ==
    [k \in DOMAIN state \cup {key} |-> IF k = key THEN value ELSE state[k]]

\* The reset with the index left where it stood.
select_opening_keeps_index(gd, selected_opening, state) ==
    IF \/ "selected_opening" \notin DOMAIN state
       \/ state.selected_opening # selected_opening
    THEN Put(Put(Put(state, "moves", get_move_list(gd, selected_opening)),
                 "current_move_index",
                 IF "current_move_index" \in DOMAIN state
                 THEN state.current_move_index ELSE 0),
             "selected_opening", selected_opening)
    ELSE state

\* The reset done by every run, whether or not the opening changed.
select_opening_every_run(gd, selected_opening, state) ==
    Put(Put(Put(state, "moves", get_move_list(gd, selected_opening)),
            "current_move_index", 0),
        "selected_opening", selected_opening)

select_opening(gd, selected_opening, state) ==
    LET moves == get_move_list(gd, selected_opening)
        first == IF \/ "selected_opening" \notin DOMAIN state
                    \/ state.selected_opening # selected_opening
                 THEN Put(Put(Put(state, "moves", moves), "current_move_index", 0),
                          "selected_opening", selected_opening)
                 ELSE state
    IN  IF \/ "current_move_index" \notin DOMAIN first
           \/ first.selected_opening # selected_opening
        THEN Put(Put(first, "current_move_index", 0), "selected_opening", selected_opening)
        ELSE first

(***************************************************************************)
(* app.main, lines 140-171: the list of games of the selected opening.     *)
(***************************************************************************)
RatingMargin == 50

display_data(gd, selected_opening) ==
    LET opening_games ==
            SelectRows(gd, [i \in DOMAIN gd |-> gd[i].opening_name = selected_opening])
    IN  [i \in DOMAIN opening_games |->
            [id |-> opening_games[i].id, rated |-> opening_games[i].rated,
             turns |-> opening_games[i].turns,
             white_rating |-> opening_games[i].white_rating,
             black_rating |-> opening_games[i].black_rating,
             winner |-> opening_games[i].winner,
             time_control_category |-> opening_games[i].time_control_category]]

GamesRatedFilter(df, w) ==
    CASE w.filter_rated_plot = "Rated" ->
            SelectRows(df, [i \in DOMAIN df |-> df[i].rated = TRUE])
      [] w.filter_rated_plot = "Non-Rated" ->
            SelectRows(df, [i \in DOMAIN df |-> df[i].rated = FALSE])
      [] OTHER -> df

GamesWinnerFilter(df, w) ==
    CASE w.filter_winner = "White" ->
            SelectRows(df, [i \in DOMAIN df |-> df[i].winner = "white"])
      [] w.filter_winner = "Black" ->
            SelectRows(df, [i \in DOMAIN df |-> df[i].winner = "black"])
      [] OTHER -> df

GamesRatingFilter(df, w) ==
    IF w.include_rating
    THEN LET rating_lower_bound == w.rating[1] - RatingMargin
             rating_upper_bound == w.rating[2] + RatingMargin
         IN  SelectRows(df, [i \in DOMAIN df |->
                 \/ between(df[i].white_rating, rating_lower_bound, rating_upper_bound)
                 \/ between(df[i].black_rating, rating_lower_bound, rating_upper_bound)])
    ELSE df

\* The table shown under 'List Of Games', or None when that tab is not open.
ListOfGames(gd, w) ==
    LET shown == display_data(gd, w.selected_opening[1])
    IN  IF w.tabs = "List Of Games" /\ shown # <<>>
        THEN Some(GamesRatingFilter(GamesWinnerFilter(GamesRatedFilter(shown, w), w), w))
        ELSE None

(***************************************************************************)
(* app.main, lines 204-231: the step buttons and the board.                *)
(***************************************************************************)
\* The backward step jumping to the first move.
step_backward_rewinds(state) ==
    IF state.current_move_index > 0
    THEN [state EXCEPT !.current_move_index = 0]
    ELSE state

step_backward(state) ==
    IF state.current_move_index > 0
    THEN [state EXCEPT !.current_move_index = @ - 1]
    ELSE state

\* The forward step without its bound check.
step_forward_unclamped(state) == [state EXCEPT !.current_move_index = @ + 1]

step_forward(state) ==
    IF state.current_move_index < Len(state.moves) - 1
    THEN [state EXCEPT !.current_move_index = @ + 1]
    ELSE state

\* Lines 208-218: at most one button reports a click in a run.
Step(pressed, state) ==
    CASE pressed = "backward" -> step_backward(state)
      [] pressed = "forward"  -> step_forward(state)
      [] OTHER -> state

(***************************************************************************)
(* What a script run leaves on the page.  `line` is the line of app.py an  *)
(* uncaught exception passed through (0: the run reached the end).         *)
(***************************************************************************)
\* What the four plot slots of tab 1 show: a chart, the "No plot available"
\* text, or nothing because the run had ended before.
Shown(fig, raised) == IF fig # None THEN "chart" ELSE IF raised THEN "" ELSE "no plot"

Slots(plots) ==
    [most_played   |-> Shown(plots.most_played, plots.raised),
     top_openings  |-> Shown(plots.top_openings, plots.raised),
     duration      |-> Shown(plots.duration, plots.raised),
     winning_rates |-> Shown(plots.winning_rates, plots.raised)]

View(error, line, filtered_data, plots, games, current_move, board, arrows) ==
    [ran |-> TRUE, error |-> error, line |-> line, filtered_data |-> filtered_data,
     plots |-> Slots(plots), games |-> games, current_move |-> current_move,
     board |-> board, arrows |-> arrows]

NotRun ==
    [ran |-> FALSE, error |-> "", line |-> 0, filtered_data |-> <<>>,
     plots |-> [most_played |-> "", top_openings |-> "", duration |-> "",
                winning_rates |-> ""],
     games |-> None, current_move |-> None, board |-> None, arrows |-> <<>>]

\* What a run hands back: the widget values, the session state, the page.
Outcome(w, state, page) == [widgets |-> w, session_state |-> state, view |-> page]

\* Lines 223-231: the board after the replay, with the arrow of the last move.
RunBoard(w, state, filtered_data, plots, games, current_move, replay) ==
    IF replay.raised
    THEN Outcome(w, state,                               \* line 224: ValueError
                 View("ValueError", 224, filtered_data, plots, games,
                      Some(current_move), None, <<>>))
    ELSE IF replay.last_move = None
    THEN Outcome(w, state,                               \* line 230: move_arrow unbound
                 View("UnboundLocalError", 230, filtered_data, plots, games,
                      Some(current_move), None, <<>>))
    ELSE Outcome(w, state,
                 View("", 0, filtered_data, plots, games, Some(current_move),
                      Some(replay.board), replay.last_move))

\* Lines 208-221: `stepped` is the session state after the button handlers.
RunButtons(w, state, stepped, pressed, filtered_data, plots, games) ==
    IF /\ stepped.current_move_index # state.current_move_index
       /\ ~PyIndexOk(stepped.moves, stepped.current_move_index)
    THEN Outcome(w, stepped,                             \* line 212 / 218: IndexError
                 View("IndexError", IF pressed = "backward" THEN 212 ELSE 218,
                      filtered_data, plots, games, None, None, <<>>))
    ELSE RunBoard(w, stepped, filtered_data, plots, games,
                  PyIndex(stepped.moves, stepped.current_move_index),
                  update_chess_board(stepped.moves, stepped.current_move_index))

\* Lines 204-231, entered with the session state `state`.
RunColumn3(w, state, pressed, filtered_data, plots, games) ==
    IF ~PyIndexOk(state.moves, state.current_move_index)
    THEN Outcome(w, state,                               \* line 206: IndexError
                 View("IndexError", 206, filtered_data, plots, games, None, None, <<>>))
    ELSE RunButtons(w, state, Step(pressed, state), pressed, filtered_data, plots, games)

\* Lines 107-203: the opening selector, the detail tabs, the game selector.
RunTab2(gd, w, state, pressed, filtered_data, plots) ==
    RunColumn3([w EXCEPT !.game_ID = selectbox(GameOptions(gd, w.selected_opening[1]), @)],
               select_opening(gd, w.selected_opening[1], state),
               pressed, filtered_data, plots, ListOfGames(gd, w))

\* Lines 68-103: the plots; line 69 notes the active tab first.
RunTab1(gd, w, state, pressed, filtered_data, plots) ==
    IF plots.raised
    THEN Outcome(w, state,                               \* line 80: KeyError
                 View("KeyError", 80, filtered_data, plots, None, None, None, <<>>))
    ELSE RunTab2(gd, w, state, pressed, filtered_data, plots)

\* Lines 52-64.
RunFilters(gd, w, state, pressed, filtered_data) ==
    RunTab1(gd, w, Put(state, "active_tab", "tab1"), pressed, filtered_data,
            Tab1(filtered_data))

\* Lines 20-47: the increment selectbox exists only while its checkbox is set.
RunSidebar(gd, w, state, pressed) ==
    RunFilters(gd, w, state, pressed, FilteredData(gd, w))

\* One run of the script with the widget values `w`, the session state
\* `state` and the button `pressed` ("" for none).
main(gd, w, state, pressed) ==
    RunSidebar(gd,
               [w EXCEPT !.time_increment =
                   IF w.enable_selectbox
                   THEN selectbox(IncrementOptions(gd), @)
                   ELSE None],
               state, pressed)

(***************************************************************************)
(* The session: one action per interaction, each followed by a script run. *)
(***************************************************************************)
NoEvent == [kind |-> "", index_before |-> None, prev_kind |-> "", start |-> None]

NoCall == [fn |-> "", input |-> <<>>, result |-> <<>>]

Init ==
    /\ game_data \in Datasets
    /\ widgets = DefaultWidgets(game_data)
    /\ session_state = <<>>
    /\ view = NotRun
    /\ event = NoEvent
    /\ call = NoCall

\* A widget can be used only if the last run got as far as drawing it.
Rendered(line) == view.ran /\ (view.error = "" \/ view.line > line)

IndexOf(state) ==
    IF "current_move_index" \in DOMAIN state THEN Some(state.current_move_index) ELSE None

\* The button an interaction reports to its run.
Pressed(kind) ==
    CASE kind = "step_forward"  -> "forward"
      [] kind = "step_backward" -> "backward"
      [] OTHER -> ""

\* The history kept of the interactions that touch the replay session: the
\* kind of the last one ("" for any other interaction) with the index it found,
\* and, when the one before it was a step, that step and the index it found.
Remember(kind) ==
    IF kind = "" THEN NoEvent
    ELSE [kind         |-> kind,
          index_before |-> IndexOf(session_state),
          prev_kind    |-> IF kind # "select_opening" /\ Pressed(event.kind) # ""
                           THEN event.kind ELSE "",
          start        |-> IF kind # "select_opening" /\ Pressed(event.kind) # ""
                           THEN event.index_before ELSE None]

\* The state a finished run leaves behind.
Commit(run, kind) ==
    /\ widgets' = run.widgets
    /\ session_state' = run.session_state
    /\ view' = run.view
    /\ event' = Remember(kind)
    /\ UNCHANGED <<game_data, call>>

\* The rerun Streamlit starts after the interaction `kind` set the widget
\* values to w (a button reports its click to this one run).
Rerun(kind, w) ==
    \E run \in {main(game_data, w, session_state, Pressed(kind))} : Commit(run, kind)

\* The first run, when the page is opened.
FirstRun ==
    /\ ~view.ran
    /\ Rerun("", widgets)

SelectCategory ==
    /\ Rendered(21)
    /\ \E c \in Range(CategoryOptions(game_data)) :
          /\ widgets.category # Some(c)
          /\ Rerun("", [widgets EXCEPT !.category = Some(c)])

SelectRatedFilter ==
    /\ Rendered(25)
    /\ \E v \in {"All", "Rated", "Non-Rated"} :
          /\ widgets.filter_rated_plot # v
          /\ Rerun("", [widgets EXCEPT !.filter_rated_plot = v])

ToggleIncrement ==
    /\ Rendered(26)
    /\ Rerun("", [widgets EXCEPT !.enable_selectbox = ~@])

SelectIncrement ==
    /\ Rendered(42)
    /\ widgets.enable_selectbox
    /\ \E i \in Range(IncrementOptions(game_data)) :
          /\ widgets.time_increment # Some(i)
          /\ Rerun("", [widgets EXCEPT !.time_increment = Some(i)])

ToggleRating ==
    /\ Rendered(43)
    /\ Rerun("", [widgets EXCEPT !.include_rating = ~@])

\* The slider is disabled unless 'Include rating?' is ticked.
SlideRating ==
    /\ Rendered(44)
    /\ widgets.include_rating
    /\ \E lower \in SliderValues(game_data), upper \in SliderValues(game_data) :
          /\ lower <= upper
          /\ widgets.rating # <<lower, upper>>
          /\ Rerun("", [widgets EXCEPT !.rating = <<lower, upper>>])

SelectWinnerFilter ==
    /\ Rendered(47)
    /\ \E v \in {"All", "White", "Black"} :
          /\ widgets.filter_winner # v
          /\ Rerun("", [widgets EXCEPT !.filter_winner = v])

SelectOpening ==
    /\ Rendered(112)
    /\ \E o \in Range(OpeningOptions(game_data)) :
          /\ widgets.selected_opening # Some(o)
          /\ Rerun("select_opening", [widgets EXCEPT !.selected_opening = Some(o)])

SwitchTab ==
    /\ Rendered(126)
    /\ \E t \in {"Opening move", "Winners Percentage", "Time control", "List Of Games"} :
          /\ widgets.tabs # t
          /\ Rerun("", [widgets EXCEPT !.tabs = t])

SelectGame ==
    /\ Rendered(201)
    /\ \E g \in Range(GameOptions(game_data, widgets.selected_opening[1])) :
          /\ widgets.game_ID # Some(g)
          /\ Rerun("", [widgets EXCEPT !.game_ID = Some(g)])

PressBackward ==
    /\ Rendered(209)
    /\ Rerun("step_backward", widgets)

PressForward ==
    /\ Rendered(215)
    /\ Rerun("step_forward", widgets)

Next ==
    \/ FirstRun
    \/ SelectCategory
    \/ SelectRatedFilter
    \/ ToggleIncrement
    \/ SelectIncrement
    \/ ToggleRating
    \/ SlideRating
    \/ SelectWinnerFilter
    \/ SelectOpening
    \/ SwitchTab
    \/ SelectGame
    \/ PressBackward
    \/ PressForward

Spec == Init /\ [][Next]_vars

(***************************************************************************)
(* Claims about the replay session.                                        *)
(***************************************************************************)
HasSession == {"moves", "current_move_index", "selected_opening"} \subseteq DOMAIN session_state

\* C1: after any sequence of interactions current_index lies in
\* [0, len(moves) - 1] for the session's current move list, so that
\* moves[current_index] can be read.
C1_IndexInRange ==
    HasSession =>
        /\ 0 <= session_state.current_move_index
        /\ session_state.current_move_index <= Len(session_state.moves) - 1

\* C2: a step at its boundary (forward at the last index, backward at 0)
\* leaves current_index and moves unchanged, raises no index error and does
\* not wrap; any other step moves current_index by exactly 1 and leaves
\* moves unchanged.
C2_ClampedNavigation ==
    [][ /\ event'.kind = "step_forward" =>
            /\ session_state'.moves = session_state.moves
            /\ session_state'.current_move_index =
                  IF session_state.current_move_index = Len(session_state.moves) - 1
                  THEN session_state.current_move_index
                  ELSE session_state.current_move_index + 1
            /\ view'.error # "IndexError"
        /\ event'.kind = "step_backward" =>
            /\ session_state'.moves = session_state.moves
            /\ session_state'.current_move_index =
                  IF session_state.current_move_index = 0
                  THEN 0
                  ELSE session_state.current_move_index - 1
            /\ view'.error # "IndexError" ]_vars

\* A forward press at the last index has just been served.
C2_Witness ==
    /\ event.kind = "step_forward"
    /\ event.index_before = Some(Len(session_state.moves) - 1)
    /\ session_state.current_move_index = Len(session_state.moves) - 1
    /\ Len(session_state.moves) > 1

\* C3: from a valid index that is not the last, step_forward followed by
\* step_backward returns current_index to it; from a valid index above 0,
\* step_backward followed by step_forward does.
C3_RoundTrip ==
    LET n == Len(session_state.moves)
    IN  /\ ( /\ event.prev_kind = "step_forward" /\ event.kind = "step_backward"
             /\ event.start[1] >= 0 /\ event.start[1] < n - 1 )
           => session_state.current_move_index = event.start[1]
        /\ ( /\ event.prev_kind = "step_backward" /\ event.kind = "step_forward"
             /\ event.start[1] > 0 /\ event.start[1] <= n - 1 )
           => session_state.current_move_index = event.start[1]

\* Forward then backward has just been pressed from an index that is neither
\* the first nor the last.
C3_Witness ==
    /\ event.prev_kind = "step_forward" /\ event.kind = "step_backward"
    /\ event.start[1] > 0 /\ event.start[1] < Len(session_state.moves) - 1
    /\ session_state.current_move_index = event.start[1]

\* C4: selecting another opening sets the session's moves to the move list
\* looked up for it and current_index to 0, whatever the index was; after
\* every interaction the session's moves are those of the selected opening.
C4_OpeningReset ==
    [][ /\ event'.kind = "select_opening" =>
            /\ session_state'.moves =
                  get_move_list(game_data, widgets'.selected_opening[1])
            /\ session_state'.current_move_index = 0
        /\ Rendered(124)' =>
            /\ HasSession'
            /\ session_state'.selected_opening = widgets'.selected_opening[1]
            /\ session_state'.moves =
                  get_move_list(game_data, widgets'.selected_opening[1]) ]_vars

\* Another opening has just been selected while the index stood above 0.
C4_Witness ==
    /\ event.kind = "select_opening"
    /\ event.index_before # None /\ event.index_before[1] > 0
    /\ session_state.current_move_index = 0
    /\ session_state.moves = get_move_list(game_data, widgets.selected_opening[1])
    /\ session_state.moves # <<>>

\* C6: when a move of the session's list is illegal in the position reached,
\* the run still completes and shows a board without an arrow, and the
\* session stays at the last index whose replay is valid.
C6_DegradedBoard ==
    (Rendered(215) /\ update_chess_board(session_state.moves,
                                          session_state.current_move_index).raised)
        => /\ view.error = ""
           /\ view.board # None
           /\ view.arrows = <<>>

(***************************************************************************)
(* Direct calls of single functions: Init draws the input, the action      *)
(* applies the function and records its result.  The session does not run. *)
(***************************************************************************)
Idle ==
    /\ game_data \in Datasets
    /\ widgets = DefaultWidgets(game_data)
    /\ session_state = <<>>
    /\ view = NotRun
    /\ event = NoEvent

Input(x) == [fn |-> "", input |-> x, result |-> <<>>]

Apply(fn, result) ==
    /\ call.fn = ""
    /\ call' = [call EXCEPT !.fn = fn, !.result = result]
    /\ UNCHANGED <<game_data, widgets, session_state, view, event>>

\* Sequences of at most n elements of S.
SeqsUpTo(S, n) == UNION {[1..k -> S] : k \in 0..n}

(***************************************************************************)
(* update_chess_board on any short list of tokens and any index.           *)
(***************************************************************************)
Tokens == DOMAIN SanTable

InitReplay ==
    /\ Idle
    /\ \E moves \in SeqsUpTo(Tokens, MaxMoves), index \in (-MaxMoves - 1)..(MaxMoves + 1) :
          call = Input([moves |-> moves, index |-> index])

CallUpdateChessBoard ==
    Apply("update_chess_board", update_chess_board(call.input.moves, call.input.index))

NextReplay == CallUpdateChessBoard

SpecReplay == InitReplay /\ [][NextReplay]_vars

\* The token at 0-based position k of the call's move list, as a move.
MoveAt(k) ==
    LET m == SanTable[call.input.moves[k + 1]]
    IN  [from_square |-> m.from_square, to_square |-> m.to_square]

\* The pieces stand where playing the first n tokens puts them.
PositionAfter(board, n) ==
    /\ board.ply = n
    /\ \A q \in Squares :
          board.at[q] =
              IF \E k \in 0..(n - 1) : MoveAt(k).to_square = q
              THEN SanTable[call.input.moves[
                       1 + CHOOSE k \in 0..(n - 1) : MoveAt(k).to_square = q]].piece
              ELSE IF \E k \in 0..(n - 1) : MoveAt(k).from_square = q
              THEN ""
              ELSE Board.at[q]

\* C5 as written: moves 0..index are applied and the move at index is
\* last_move; last_move is none whenever index is out of range (negative or
\* >= len(moves)) or the list is empty; ([], 0) gives the initial position.
C5_LastMoveNoneOutOfRange ==
    (call.fn = "update_chess_board" /\ ~call.result.raised) =>
        LET moves == call.input.moves
            index == call.input.index
        IN  IF index < 0 \/ index >= Len(moves)
            THEN call.result.last_move = None
            ELSE /\ call.result.last_move = Some(MoveAt(index))
                 /\ PositionAfter(call.result.board, index + 1)

\* The number of leading moves moves[:index + 1] selects.
Applied(moves, index) ==
    CASE index >= Len(moves)  -> Len(moves)
      [] index >= 0           -> index + 1
      [] index = -1           -> 0
      [] index + 1 + Len(moves) > 0 -> index + 1 + Len(moves)
      [] OTHER                -> 0

\* C5 as the code has it: the moves of the Python slice moves[:index + 1]
\* are applied in order from the initial position.  For 0 <= index < len
\* these are moves 0..index; for index >= len all moves; for index = -1
\* none; for index < -1 all but the last -index-1.  last_move is the last move applied, and none
\* exactly when no move is applied.  Without any move the call cannot fail.
C5_SliceReplay ==
    call.fn = "update_chess_board" =>
        LET moves == call.input.moves
            n == Applied(moves, call.input.index)
        IN  /\ (n = 0 => ~call.result.raised)
            /\ ~call.result.raised =>
                  /\ PositionAfter(call.result.board, n)
                  /\ call.result.last_move = IF n = 0 THEN None ELSE Some(MoveAt(n - 1))
            /\ (moves = <<>> /\ call.input.index = 0) =>
                  (call.result.board = Board /\ call.result.last_move = None)

\* A call with the index past the end of a legal list has returned its last move.
C5_Witness ==
    /\ call.fn = "update_chess_board"
    /\ ~call.result.raised
    /\ Len(call.input.moves) >= 2
    /\ call.input.index >= Len(call.input.moves)
    /\ call.result.last_move = Some(MoveAt(Len(call.input.moves) - 1))


(***************************************************************************)
(* The plot filters of app.main on any small table and any widget values   *)
(* the sidebar can hold for it.                                            *)
(***************************************************************************)
FilterRows ==
    {Game("r", "Italian Game", <<"e4">>, "white", rated, p[2], p[3], category, p[1], 300, 1) :
        rated \in BOOLEAN, category \in {"Blitz", "Rapid"},
        p \in {<<5, 100, 140>>, <<10, 30, 60>>}}

FilterTables == SeqsUpTo(FilterRows, MaxRows) \ {<<>>}

\* The sidebar values reachable on table gd.
SidebarWidgets(gd) ==
    {[DefaultWidgets(gd) EXCEPT !.category = Some(category),
                                !.filter_rated_plot = rated,
                                !.enable_selectbox = (increment # None),
                                !.time_increment = increment,
                                !.include_rating = (rating # None),
                                !.rating = IF rating = None THEN @ ELSE rating[1]] :
        category \in Range(CategoryOptions(gd)),
        rated \in {"All", "Rated", "Non-Rated"},
        increment \in {None} \cup {Some(x) : x \in Range(IncrementOptions(gd))},
        rating \in {None} \cup {Some(r) : r \in {q \in SliderValues(gd) \X SliderValues(gd) :
                                                     q[1] <= q[2]}}}

InitFilter ==
    /\ Idle
    /\ \E gd \in FilterTables : \E w \in SidebarWidgets(gd) :
          call = Input([game_data |-> gd, widgets |-> w])

CallFilteredData ==
    Apply("filtered_data", FilteredData(call.input.game_data, call.input.widgets))

NextFilter == CallFilteredData

SpecFilter == InitFilter /\ [][NextFilter]_vars

\* Every order of the four filters.
FilterOrders ==
    {order \in [1..4 -> FilterNames] : \A i, j \in 1..4 : order[i] = order[j] => i = j}

\* The row satisfies every predicate the widgets enable.
Passes(row, w) ==
    /\ Some(row.time_control_category) = w.category
    /\ w.filter_rated_plot = "Rated" => row.rated
    /\ w.filter_rated_plot = "Non-Rated" => ~row.rated
    /\ (w.enable_selectbox /\ w.time_increment # None) =>
          row.increment = w.time_increment[1]
    /\ w.include_rating =>
          \/ (w.rating[1] <= row.white_rating /\ row.white_rating <= w.rating[2])
          \/ (w.rating[1] <= row.black_rating /\ row.black_rating <= w.rating[2])

\* C7: the filtered table keeps rows of T only, holds exactly the rows that
\* satisfy all enabled predicates, and is the same for every order in which
\* the four predicates are applied.
C7_FilterCommutes ==
    call.fn = "filtered_data" =>
        LET T == call.input.game_data
            w == call.input.widgets
        IN  /\ Range(call.result) \subseteq Range(T)
            /\ call.result = SelectRows(T, [i \in DOMAIN T |-> Passes(T[i], w)])
            /\ \A order \in FilterOrders : ApplyFilters(order, T, w) = call.result

\* All four predicates are enabled and the result is a proper, non-empty
\* part of the table.
C7_Witness ==
    /\ call.fn = "filtered_data"
    /\ call.input.widgets.filter_rated_plot # "All"
    /\ call.input.widgets.enable_selectbox
    /\ call.input.widgets.include_rating
    /\ call.result # <<>>
    /\ Len(call.result) < Len(call.input.game_data)


\* C8: at both places the rating filter is applied - the table behind the
\* plots and the list of games of the opening - a game passes exactly when
\* its white or its black rating lies in [lo - 50, hi + 50].
C8_RatingMargin ==
    (view.ran /\ widgets.include_rating) =>
        LET off == [widgets EXCEPT !.include_rating = FALSE]
            lo == widgets.rating[1] - 50
            hi == widgets.rating[2] + 50
            InMargin(row) ==
                \/ (lo <= row.white_rating /\ row.white_rating <= hi)
                \/ (lo <= row.black_rating /\ row.black_rating <= hi)
            Margin(df) == SelectRows(df, [i \in DOMAIN df |-> InMargin(df[i])])
        IN  /\ view.filtered_data = Margin(FilteredData(game_data, off))
            /\ view.games # None => view.games = Some(Margin(ListOfGames(game_data, off)[1]))

(***************************************************************************)
(* The aggregations of utils on small filtered tables: the empty table or  *)
(* five openings won once by white, and up to MaxRows further games of any *)
(* opening and any winner.                                                 *)
(***************************************************************************)
AggGame(opening_name, winner) ==
    Game("a", opening_name, <<"e4">>, winner, TRUE, 100, 100, "Blitz", 5, 300, 2)

FiveOpenings == [i \in 1..TopK |-> AggGame(OpeningNames[i], "white")]

AggRows == {AggGame(o, win) : o \in Range(OpeningNames), win \in {"white", "black", "draw"}}

AggTables == {base \o more : base \in {<<>>, FiveOpenings}, more \in SeqsUpTo(AggRows, MaxRows)}

InitAgg == Idle /\ \E data \in AggTables : call = Input(data)

CallPlotTopOpenings == Apply("plot_top_openings", plot_top_openings(call.input))

CallTab1 == Apply("tab1", Tab1(call.input))

CallPlotWinningRates == Apply("plot_winning_rates", plot_winning_rates(call.input))

CallPlotMostPlayedOpenings ==
    Apply("plot_most_played_openings", plot_most_played_openings(call.input))

NextAgg ==
    \/ CallPlotTopOpenings
    \/ CallTab1
    \/ CallPlotWinningRates
    \/ CallPlotMostPlayedOpenings

SpecAgg == InitAgg /\ [][NextAgg]_vars

\* Games of the opening won by white or by black.
CombinedWins(data, name) ==
    Cardinality({k \in DOMAIN data :
                    data[k].opening_name = name /\ data[k].winner \in {"white", "black"}})

\* C9: plot_top_openings shows at most 5 openings, and no opening left out
\* has strictly more combined white and black wins than an opening shown.
C9_TopByCombinedWins ==
    (call.fn = "plot_top_openings" /\ ~call.result.raised) =>
        LET shown == {call.result.rows[i].opening_name : i \in DOMAIN call.result.rows}
            left_out == Range(Column(call.input, "opening_name")) \ shown
        IN  /\ Len(call.result.rows) <= 5
            /\ \A o \in left_out, s \in shown :
                  CombinedWins(call.input, o) <= CombinedWins(call.input, s)

\* C10: on every filtered table, whatever winner values occur in it, each
\* aggregation of the plots tab ends with a figure or, on the empty table,
\* with the "no plot" signal; none raises.
C10_NoAggregationRaises ==
    call.fn = "tab1" =>
        /\ ~call.result.raised
        /\ call.input # <<>> =>
              /\ call.result.most_played # None
              /\ call.result.top_openings # None
              /\ call.result.duration # None
              /\ call.result.winning_rates # None


\* The number of rows of the table won by `who`.
WonBy(data, who) == Cardinality({k \in DOMAIN data : data[k].winner = who})

\* C11: plot_winning_rates returns no chart exactly when the filtered table
\* has no rows; otherwise it counts each winner value that occurs once, with
\* the number of rows it won, and the counts over white, black and draw sum
\* to the number of rows of the table.
C11_WinRateSummary ==
    call.fn = "plot_winning_rates" =>
        /\ (call.result = None) <=> (call.input = <<>>)
        /\ call.result # None =>
              LET counts == call.result[1].counts
              IN  /\ \A i, j \in DOMAIN counts : counts[i].value = counts[j].value => i = j
                  /\ \A i \in DOMAIN counts :
                        /\ counts[i].value \in {"white", "black", "draw"}
                        /\ counts[i].count = WonBy(call.input, counts[i].value)
                        /\ counts[i].count > 0
                  /\ Sum([i \in DOMAIN counts |-> counts[i].count]) = Len(call.input)

\* A table with white, black and drawn games has been counted.
C11_Witness ==
    /\ call.fn = "plot_winning_rates"
    /\ call.result # None
    /\ Len(call.result[1].counts) = 3
    /\ Len(call.input) > 3


\* The number of games of the opening in the table.
GamesOf(data, name) == Cardinality({k \in DOMAIN data : data[k].opening_name = name})

\* C12: plot_most_played_openings returns min(5, number of distinct
\* openings) entries, one per opening with its game count, in order of
\* non-increasing count; no opening left out has strictly more games than
\* one included; the entry at rank i carries the i-th colour of the fixed
\* palette of 5, so the colours are pairwise distinct.
C12_MostPlayed ==
    call.fn = "plot_most_played_openings" =>
        LET rows == call.result
            openings == Range(Column(call.input, "opening_name"))
            included == {rows[i].opening_name : i \in DOMAIN rows}
        IN  /\ Len(rows) = IF Cardinality(openings) < 5 THEN Cardinality(openings) ELSE 5
            /\ included \subseteq openings
            /\ \A i \in DOMAIN rows : rows[i].games = GamesOf(call.input, rows[i].opening_name)
            /\ \A i, j \in DOMAIN rows : i < j => rows[i].games >= rows[j].games
            /\ \A o \in openings \ included, i \in DOMAIN rows :
                  GamesOf(call.input, o) <= rows[i].games
            /\ \A i \in DOMAIN rows : rows[i].color = custom_colors[i]
            /\ \A i, j \in DOMAIN rows :
                  i # j => (rows[i].color # rows[j].color
                            /\ rows[i].opening_name # rows[j].opening_name)

\* Six openings were played, the one met last most often, and one is left out.
C12_Witness ==
    /\ call.fn = "plot_most_played_openings"
    /\ Cardinality(Range(Column(call.input, "opening_name"))) = 6
    /\ Len(call.result) = 5
    /\ call.result[1].opening_name = call.input[Len(call.input)].opening_name
    /\ call.result[1].games > call.result[5].games


\* C13: the replay state has no other writers.  A run started by anything
\* but an opening change or a step button (a sidebar filter, the detail
\* tab, the game id) leaves the session's moves and current_move_index as
\* they were, and a step button never changes moves.
C13_NoOtherWriters ==
    [][ HasSession =>
          /\ event'.kind = "" =>
                /\ HasSession'
                /\ session_state'.moves = session_state.moves
                /\ session_state'.current_move_index = session_state.current_move_index
                /\ session_state'.selected_opening = session_state.selected_opening
          /\ event'.kind \in {"step_forward", "step_backward"} =>
                session_state'.moves = session_state.moves ]_vars

\* After a step, a sidebar filter and the detail tab were changed; the last
\* interaction was not a replay interaction and the index is still past 0.
C13_Witness ==
    /\ HasSession
    /\ view.ran
    /\ event.kind = ""
    /\ session_state.current_move_index >= 1
    /\ widgets.filter_rated_plot # "All"
    /\ widgets.tabs = "List Of Games"


(***************************************************************************)
(* utils.display_opening_details on small tables of two openings.          *)
(***************************************************************************)
\* The winner and category labels in Python's string order.
LabelOrder == <<"Blitz", "Bullet", "Rapid", "black", "draw", "white">>

LabelRank(label) == CHOOSE i \in DOMAIN LabelOrder : LabelOrder[i] = label

\* The values of a sequence of labels in ascending string order.
sorted_labels(labels) ==
    SelectRows(LabelOrder, [i \in DOMAIN LabelOrder |-> LabelOrder[i] \in Range(labels)])

\* The modes counted but listed in order of first appearance.
mode_first_met(series) ==
    LET Count(v) == Cardinality({k \in DOMAIN series : series[k] = v})
        values == unique(series)
    IN  SelectRows(values, [i \in DOMAIN values |->
                               \A k \in DOMAIN series : Count(series[k]) <= Count(values[i])])

\* Series.mode(): the most frequent values, sorted ascending.
mode(series) ==
    LET Count(v) == Cardinality({k \in DOMAIN series : series[k] = v})
        values == unique(series)
    IN  sorted_labels(SelectRows(values, [i \in DOMAIN values |->
                               \A k \in DOMAIN series : Count(series[k]) <= Count(values[i])]))

\* The row of details shown for the opening (the 'Opening PLY' cell copies a
\* column the tables here do not carry).
display_opening_details(data, opening_name) ==
    LET opening_data ==
            SelectRows(data, [i \in DOMAIN data |-> data[i].opening_name = opening_name])
    IN  [games_count |-> Len(opening_data),
         most_winning_color |->
             IF opening_data # <<>> THEN mode(Column(opening_data, "winner"))[1]
             ELSE "N/A",
         most_played_time_category |->
             IF opening_data # <<>>
             THEN mode(Column(opening_data, "time_control_category"))[1]
             ELSE "N/A"]

DetailOpenings == {"Italian Game", "Sicilian Defense"}

DetailRows ==
    {Game("d", o, <<"e4">>, win, TRUE, 100, 100, category, 5, 300, 1) :
        o \in DetailOpenings, win \in {"white", "black", "draw"},
        category \in {"Rapid", "Blitz"}}

InitDetails ==
    /\ Idle
    /\ \E data \in SeqsUpTo(DetailRows, MaxRows), o \in DetailOpenings :
          call = Input([data |-> data, opening_name |-> o])

CallDisplayOpeningDetails ==
    Apply("display_opening_details",
          display_opening_details(call.input.data, call.input.opening_name))

NextDetails == CallDisplayOpeningDetails

SpecDetails == InitDetails /\ [][NextDetails]_vars


\* The values of column `col` in the rows of the opening the call names.
DetailSeries(col) ==
    LET data == call.input.data
    IN  Column(SelectRows(data, [i \in DOMAIN data |->
                                    data[i].opening_name = call.input.opening_name]), col)

Occurrences(series, v) == Cardinality({k \in DOMAIN series : series[k] = v})

\* The values no other value of the series is more frequent than.
MostFrequent(series) ==
    {v \in Range(series) : \A u \in Range(series) : Occurrences(series, u) <= Occurrences(series, v)}

FirstAt(series, v) == CHOOSE k \in DOMAIN series : series[k] = v /\ \A j \in 1..(k - 1) : series[j] # v

\* v is most frequent and met before every other most frequent value.
ModalFirstMet(series, v) ==
    /\ v \in MostFrequent(series)
    /\ \A u \in MostFrequent(series) : FirstAt(series, v) <= FirstAt(series, u)

\* v is most frequent and the least most frequent value in string order.
ModalLeast(series, v) ==
    /\ v \in MostFrequent(series)
    /\ \A u \in MostFrequent(series) : LabelRank(v) <= LabelRank(u)

\* C14 as written: the modal winner and the modal time category are a most
\* frequent value among the opening's rows, and of several equally frequent
\* values the one that occurs first in table order is returned.
C14_ModalFirstInTable ==
    (call.fn = "display_opening_details" /\ call.result.games_count > 0) =>
        /\ ModalFirstMet(DetailSeries("winner"), call.result.most_winning_color)
        /\ ModalFirstMet(DetailSeries("time_control_category"),
                         call.result.most_played_time_category)

\* C14 as the code has it: the modal winner and the modal time category
\* are a most frequent value among the opening's rows, and of several
\* equally frequent values the least in string order is returned (black
\* before draw before white, Blitz before Rapid), wherever it stands in the
\* table; an opening without rows shows 'N/A' for both.
C14_ModalLeastLabel ==
    call.fn = "display_opening_details" =>
        /\ call.result.games_count = Len(DetailSeries("winner"))
        /\ call.result.games_count > 0 =>
              /\ ModalLeast(DetailSeries("winner"), call.result.most_winning_color)
              /\ ModalLeast(DetailSeries("time_control_category"),
                            call.result.most_played_time_category)
        /\ call.result.games_count = 0 =>
              /\ call.result.most_winning_color = "N/A"
              /\ call.result.most_played_time_category = "N/A"

\* Two winners tie and the one returned is not the one met first.
C14_Witness ==
    /\ call.fn = "display_opening_details"
    /\ Cardinality(MostFrequent(DetailSeries("winner"))) >= 2
    /\ call.result.most_winning_color # DetailSeries("winner")[1]
    /\ call.result.most_winning_color \in MostFrequent(DetailSeries("winner"))

=============================================================================
